---- MODULE Spec2Model ----
(***************************************************************************)
(* A model of src/pull-request/main.py: the GitHub API client              *)
(* (_make_request, _paginate, get_pr_timeline), the derivation of the      *)
(* three per-PR timestamps, and the generate_stats run with its            *)
(* incrementally rewritten JSON output file.                               *)
(*                                                                         *)
(* Three specifications share the variables:                               *)
(*   SpecClient  one call of _paginate, with _make_request inside it;      *)
(*   SpecDerive  the derivations of generate_pr_stats on raw input;        *)
(*   SpecRun     one run of generate_stats, which may be killed anywhere.  *)
(***************************************************************************)
EXTENDS Integers, Sequences, FiniteSets, TLC

VARIABLES
    \* ---- GitHubAPIClient._paginate / _make_request
    cpc,        \* "idle" | "request" | "returned" | "raised"
    url,        \* the url _paginate was called with
    params,     \* the params dict (one object, updated in place)
    page,       \* _paginate's page counter
    results,    \* _paginate's accumulated list
    now,        \* int(time.time())
    log,        \* what the client did: calls, gets, responses, sleeps, returns
    \* ---- the derivations of generate_pr_stats
    dpc,        \* "input" | "done"
    pr,         \* the raw PR object
    raw_reviews,
    raw_timeline,
    request_to_review,
    approval_timestamp,
    review_given_timestamp,
    \* ---- PRStatsGenerator.generate_stats
    rpc,        \* position of the run
    prs,        \* the PR list returned by get_pull_requests
    idx,        \* index of the PR the loop is at
    stats,      \* the PullRequestStats just generated
    data,       \* _append_pr_to_json's loaded document
    file,       \* the content of output_file
    clock,      \* datetime.now() of the run, in ticks
    errors,     \* PR numbers of the errors logged at the loop boundary
    notfound,   \* PR numbers whose reviews request logged "Resource not found"
    pr_stats,   \* generate_stats' list of the stats appended
    handled,    \* per PR the loop is through with: how it went
    retval,     \* what generate_stats returned
    killed      \* the process was terminated

clientVars == <<cpc, url, params, page, results, now, log>>
deriveVars == <<dpc, pr, raw_reviews, raw_timeline, request_to_review,
                approval_timestamp, review_given_timestamp>>
runVars == <<rpc, prs, idx, stats, data, file, clock, errors, notfound,
             pr_stats, handled, retval, killed>>
vars == <<clientVars, deriveVars, runVars>>

\* Python's None (where a timestamp, a document or a record may be).
None == <<>>

(***************************************************************************)
(* Bounds of the model.                                                    *)
(***************************************************************************)
\* session.get calls of one _paginate call
MaxGets == 4

(***************************************************************************)
(* GitHubAPIClient                                                         *)
(***************************************************************************)
\* params['per_page'] = 100
PerPage == 100
\* if len(data) < 100
FullPage == 100
\* the clock at the start
Now0 == 1000

\* Status codes the service may answer with.
Statuses == {200, 204, 304, 403, 404, 422, 500}

\* X-RateLimit-Reset: absent (<<>>) or an epoch second.
ResetHeaders == {<<>>, <<900>>, <<1200>>}

\* int(response.headers.get('X-RateLimit-Reset', 0))
ResetTime(header) == IF header = <<>> THEN 0 ELSE header[1]

Max(a, b) == IF a >= b THEN a ELSE b

SleepTimeNoFloor(reset_time, current_time) == reset_time - current_time + 60

\* sleep_time = max(reset_time - current_time + 60, 60)
SleepTime(reset_time, current_time) ==
    Max(reset_time - current_time + 60, 60)

\* requests' Response.raise_for_status: raises for 4xx and 5xx, and only those.
RaiseForStatus(status) == 400 <= status /\ status < 600

\* A decoded body: a list of items, or a dict with n keys.
ListBody(items) == [kind |-> "list", items |-> items]
DictBody(n) == [kind |-> "dict", keys |-> n]

\* The n items the service sends for the g-th get.
Items(g, n) == [i \in 1..n |-> g * 1000 + i]

Bodies(g) == {ListBody(Items(g, n)) : n \in {0, 37, PerPage}}
                \cup {DictBody(0), DictBody(1)}

\* not data
Falsy(body) ==
    IF body.kind = "list" THEN body.items = <<>> ELSE body.keys = 0

NumGets == Cardinality({i \in 1..Len(log) : log[i].ev = "get"})

GetEv == [ev |-> "get", url |-> url, params |-> params]

\* What one pass of _make_request's loop does with a response:
\* "return" a value, "sleep" and go round again, "raise", or go round again
\* at once ("again": raise_for_status returned without raising).
MakeRequestStep(status, header, body, current_time) ==
    IF status = 200 THEN [do |-> "return", value |-> body]
    ELSE IF status = 403
    THEN [do |-> "sleep",
          secs |-> SleepTime(ResetTime(header), current_time)]
    ELSE IF status = 404 THEN [do |-> "return", value |-> DictBody(0)]
    ELSE IF RaiseForStatus(status) THEN [do |-> "raise"]
    ELSE [do |-> "again"]

\* results.extend(data)
Extend(rs, items) == rs \o items

NextPageSame(p) == p

\* page += 1
NextPage(p) == p + 1

\* _paginate(url, params): lines 109-115, up to the first _make_request.
Paginate(u, p) ==
    /\ cpc = "idle"
    /\ url' = u
    /\ page' = 1
    /\ results' = <<>>
    /\ params' = [state |-> p, page |-> 1, per_page |-> PerPage]
    /\ log' = <<[ev |-> "call", url |-> u,
                 params |-> [state |-> p, page |-> 1, per_page |-> PerPage]]>>
    /\ cpc' = "request"
    /\ UNCHANGED now
    /\ UNCHANGED <<deriveVars, runVars>>

\* What _paginate does with the value _make_request returned (lines 119-127).
PaginateOn(value, evs) ==
    IF Falsy(value) \/ value.kind # "list"
    THEN /\ cpc' = "returned"
         /\ log' = log \o evs
         /\ UNCHANGED <<page, results, params>>
    ELSE /\ results' = Extend(results, value.items)
         /\ IF Len(value.items) < FullPage
            THEN /\ cpc' = "returned"
                 /\ log' = log \o evs
                 /\ UNCHANGED <<page, params>>
            ELSE /\ page' = NextPage(page)
                 /\ params' = [params EXCEPT !.page = NextPage(page)]
                 /\ log' = log \o evs \o
                        <<[ev |-> "call", url |-> url,
                           params |-> [params EXCEPT !.page = NextPage(page)]]>>
                 /\ cpc' = "request"

\* One pass of _make_request's loop: session.get, then the branch taken.
Respond(status, header, body) ==
    /\ cpc = "request"
    /\ NumGets < MaxGets
    /\ LET step == MakeRequestStep(status, header, body, now)
           resp == [ev |-> "resp", status |-> status, header |-> header,
                    body |-> body, at |-> now]
       IN  CASE step.do = "return" ->
                 /\ PaginateOn(step.value,
                      <<GetEv, resp, [ev |-> "return", value |-> step.value]>>)
                 /\ UNCHANGED <<url, now>>
           []   step.do = "sleep" ->
                 /\ log' = log \o <<GetEv, resp,
                                    [ev |-> "sleep", secs |-> step.secs]>>
                 /\ now' = now + step.secs
                 /\ UNCHANGED <<cpc, url, params, page, results>>
           []   step.do = "raise" ->
                 /\ log' = log \o <<GetEv, resp, [ev |-> "raise"]>>
                 /\ cpc' = "raised"
                 /\ UNCHANGED <<url, params, page, results, now>>
           []   OTHER ->
                 /\ log' = log \o <<GetEv, resp>>
                 /\ UNCHANGED <<cpc, url, params, page, results, now>>
    /\ UNCHANGED <<deriveVars, runVars>>

\* The answers of the service, by the branch of _make_request they take.
Answer200 ==
    /\ cpc = "request"
    /\ \E body \in Bodies(NumGets + 1) : Respond(200, <<>>, body)

Answer403 ==
    /\ cpc = "request"
    /\ \E header \in ResetHeaders : Respond(403, header, DictBody(1))

Answer404 ==
    /\ cpc = "request"
    /\ Respond(404, <<>>, DictBody(1))

AnswerOther ==
    /\ cpc = "request"
    /\ \E status \in Statuses \ {200, 403, 404} :
         Respond(status, <<>>, DictBody(1))

\* get_pull_requests passes {'state': 'all'}; get_pr_reviews passes None.
Callers == {<<"pulls", "all">>, <<"reviews", "absent">>}

StartPaginate ==
    /\ cpc = "idle"
    /\ \E c \in Callers : Paginate(c[1], c[2])

InitClient ==
    /\ cpc = "idle"
    /\ url = ""
    /\ params = [state |-> "absent", page |-> 0, per_page |-> 0]
    /\ page = 0
    /\ results = <<>>
    /\ now = Now0
    /\ log = <<>>

(***************************************************************************)
(* The derivations of PRStatsGenerator                                     *)
(***************************************************************************)
\* reviews of one PR
MaxReviews == 2
\* timeline events of one PR
MaxTimeline == 2

\* ISO-8601 timestamps 2024-01-DDTHH:00:00Z, kept as the digits DDHH that
\* differ; Python compares the strings character by character.
TsJan01T00 == <<0, 1, 0, 0>>
TsJan01T12 == <<0, 1, 1, 2>>
TsJan02T00 == <<0, 2, 0, 0>>
Timestamps == {TsJan01T00, TsJan01T12, TsJan02T00}

\* a < b for two Python strings (sequences of character codes)
RECURSIVE StrLess(_, _)
StrLess(a, b) ==
    IF b = <<>> THEN FALSE
    ELSE IF a = <<>> THEN TRUE
    ELSE IF Head(a) # Head(b) THEN Head(a) < Head(b)
    ELSE StrLess(Tail(a), Tail(b))

\* The "state" values of a review object of the GitHub REST API, and the
\* two literals the code compares with that are not among them.
ReviewStates == {"APPROVED", "CHANGES_REQUESTED", "COMMENTED", "DISMISSED",
                 "REQUEST_CHANGES", "COMMENT"}

\* A review's body: null, the empty string, or text.
NullBody == [null |-> TRUE, text |-> ""]
TextBody(t) == [null |-> FALSE, text |-> t]
ReviewBodies == {NullBody, TextBody(""), TextBody("LGTM")}

Reviews == [state : ReviewStates, body : ReviewBodies,
            submitted_at : Timestamps]

\* bool(r.get('body'))
Truthy(body) == ~body.null /\ body.text # ""

\* Timeline events: a "committed" event carries no created_at.
TimelineEvents ==
    [event : {"ready_for_review", "review_requested", "labeled"},
     created_at : Timestamps]
        \cup [event : {"committed"}, created_at : {None}]

\* The raw PR object: draft is true, false or not there.
PullRequests == [draft : {"true", "false", "absent"},
                 created_at : Timestamps]

SeqsUpTo(S, n) == UNION {[1..k -> S] : k \in 0..n}

\* min(rs, key=lambda x: x['submitted_at']) continued from `best`: the first
\* of the least.
RECURSIVE MinBy(_, _)
MinBy(rs, best) ==
    IF rs = <<>> THEN best
    ELSE IF StrLess(Head(rs).submitted_at, best.submitted_at)
         THEN MinBy(Tail(rs), Head(rs))
         ELSE MinBy(Tail(rs), best)

\* r.get('state') == 'APPROVED'
IsApproved(r) == r.state = "APPROVED"

GetApprovalTimestampHead(reviews) ==
    LET approved_reviews == SelectSeq(reviews, IsApproved)
    IN  IF approved_reviews # <<>>
        THEN Head(approved_reviews).submitted_at
        ELSE None

\* _get_approval_timestamp
GetApprovalTimestamp(reviews) ==
    LET approved_reviews == SelectSeq(reviews, IsApproved)
    IN  IF approved_reviews # <<>>
        THEN MinBy(Tail(approved_reviews),
                   Head(approved_reviews)).submitted_at
        ELSE None

\* the filter of _get_review_given_timestamp
IsSubstantive(r) ==
    \/ r.state \in {"REQUEST_CHANGES", "COMMENT"}
    \/ (r.state = "APPROVED" /\ Truthy(r.body))

\* _get_review_given_timestamp
GetReviewGivenTimestamp(reviews) ==
    LET substantive_reviews == SelectSeq(reviews, IsSubstantive)
    IN  IF substantive_reviews # <<>>
        THEN MinBy(Tail(substantive_reviews),
                   Head(substantive_reviews)).submitted_at
        ELSE None

\* event.get('event') in ['ready_for_review', 'review_requested']
IsReadyEvent(e) == e.event \in {"ready_for_review", "review_requested"}

\* not pr.get('draft', False)
NotDraft(p) == p.draft # "true"

GetRequestToReviewTimestampLast(p, timeline) ==
    IF NotDraft(p) THEN p.created_at
    ELSE LET ready == SelectSeq(timeline, IsReadyEvent)
         IN  IF ready # <<>> THEN ready[Len(ready)].created_at
             ELSE p.created_at

\* _get_request_to_review_timestamp
GetRequestToReviewTimestamp(p, timeline) ==
    IF NotDraft(p) THEN p.created_at
    ELSE LET ready == SelectSeq(timeline, IsReadyEvent)
         IN  IF ready # <<>> THEN Head(ready).created_at
             ELSE p.created_at

\* generate_pr_stats, lines 297-299, on the raw reviews and timeline.
Derive ==
    /\ dpc = "input"
    /\ request_to_review' = GetRequestToReviewTimestamp(pr, raw_timeline)
    /\ approval_timestamp' = GetApprovalTimestamp(raw_reviews)
    /\ review_given_timestamp' = GetReviewGivenTimestamp(raw_reviews)
    /\ dpc' = "done"
    /\ UNCHANGED <<pr, raw_reviews, raw_timeline>>
    /\ UNCHANGED <<clientVars, runVars>>

Swap(s, i) == [s EXCEPT ![i] = s[i + 1], ![i + 1] = s[i]]

\* The derivations run again on the same reviews in another order.
Reorder ==
    /\ dpc = "done"
    /\ \E i \in 1..(Len(raw_reviews) - 1) :
         /\ raw_reviews' = Swap(raw_reviews, i)
         /\ approval_timestamp' = GetApprovalTimestamp(Swap(raw_reviews, i))
         /\ review_given_timestamp' =
                GetReviewGivenTimestamp(Swap(raw_reviews, i))
    /\ request_to_review' = GetRequestToReviewTimestamp(pr, raw_timeline)
    /\ UNCHANGED <<dpc, pr, raw_timeline>>
    /\ UNCHANGED <<clientVars, runVars>>

IdleDerive ==
    /\ dpc = "input"
    /\ pr = [draft |-> "false", created_at |-> TsJan01T00]
    /\ raw_reviews = <<>>
    /\ raw_timeline = <<>>
    /\ request_to_review = None
    /\ approval_timestamp = None
    /\ review_given_timestamp = None

\* The raw input: any reviews of one PR, or any PR with any timeline.
InitDerive ==
    /\ dpc = "input"
    /\ request_to_review = None
    /\ approval_timestamp = None
    /\ review_given_timestamp = None
    /\ \/ /\ raw_reviews \in SeqsUpTo(Reviews, MaxReviews)
          /\ pr = [draft |-> "false", created_at |-> TsJan01T00]
          /\ raw_timeline = <<>>
       \/ /\ raw_reviews = <<>>
          /\ pr \in PullRequests
          /\ raw_timeline \in SeqsUpTo(TimelineEvents, MaxTimeline)

(***************************************************************************)
(* PRStatsGenerator.generate_stats and the output file                     *)
(***************************************************************************)
\* PRs of the repository
MaxPRs == 3

\* the clock when the run starts
RunStart == 0

\* repo_spec.split('/')
Owner == "octo"
Repo == "demo"

\* The repository dict of the returned RepositoryStats (lines 358-362), as
\* its set of items.
RepositoryOf(owner, repo) ==
    {<<"name", repo>>, <<"owner", owner>>,
     <<"url", <<"https://github.com/", owner, "/", repo>>>>}

\* The repo_info generate_stats passes to _init_json_output: {}.
RepoInfoPassed == {}

\* The content of output_file: not yet written by this run ("absent"),
\* truncated ("empty"), written in part ("partial"), or a JSON document.
JsonFile(doc) == [kind |-> "json", doc |-> doc]
NoJson(kind) == [kind |-> kind, doc |-> None]

\* initial_data of _init_json_output
InitialData(repo_info, at) ==
    [repository |-> repo_info, generated_at |-> at, pull_requests |-> <<>>]

\* data['pull_requests'].append(asdict(pr_stats))
AppendPr(doc, st) ==
    [doc EXCEPT !.pull_requests = Append(doc.pull_requests, st)]

\* get_review_stat (the author left out)
GetReviewStat(r) == [state |-> r.state, created_at |-> r.submitted_at]

\* get_timeline_stat (the author left out)
GetTimelineStat(e) == [event |-> e.event, created_at |-> e.created_at]

\* get_pr_timeline: the body of a 200, and [] for every other status.
GetPrTimeline(status, body) == IF status = 200 THEN body ELSE <<>>

\* What the service holds for a PR in a run: the reviews of the end-to-end
\* example (the commented review with the state the API gives it), and one
\* ready_for_review event.
RunReviews ==
    <<[state |-> "APPROVED", body |-> NullBody,
       submitted_at |-> TsJan02T00],
      [state |-> "COMMENTED", body |-> TextBody(""),
       submitted_at |-> TsJan01T12]>>
RunTimeline ==
    <<[event |-> "ready_for_review", created_at |-> TsJan01T12]>>

\* Answers to the reviews request that end _make_request, and answers to the
\* timeline request.
ReviewsStatuses == {200, 404, 500}
TimelineStatuses == {200, 403, 404, 500}

\* The PullRequestStats generate_pr_stats returns (lines 305-320).
PullRequestStats(p, reviews_raw, timeline_raw) ==
    [pr_meta |-> [number |-> p.number, created_at |-> p.created_at],
     request_to_review_timestamp |->
         GetRequestToReviewTimestamp(p, timeline_raw),
     pr_approved_timestamp |-> GetApprovalTimestamp(reviews_raw),
     review_given_timestamp |-> GetReviewGivenTimestamp(reviews_raw),
     reviews |-> [i \in 1..Len(reviews_raw) |->
                     GetReviewStat(reviews_raw[i])],
     timeline |-> [i \in 1..Len(timeline_raw) |->
                      GetTimelineStat(timeline_raw[i])]]

\* The PR lists the API may return: numbers 1..n in order, all drafts or
\* none.
PRLists ==
    UNION {[1..n -> [draft : {d}, created_at : {TsJan01T00}]] :
              n \in 0..MaxPRs, d \in {"true", "false"}}

Numbered(ps) ==
    [i \in 1..Len(ps) |->
        [number |-> i, draft |-> ps[i].draft, created_at |-> ps[i].created_at]]

Alive == ~killed

\* prs = self.client.get_pull_requests(owner, repo); pr_stats = []
GetPullRequests ==
    /\ Alive /\ rpc = "start"
    /\ \E ps \in PRLists : prs' = Numbered(ps)
    /\ pr_stats' = <<>>
    /\ rpc' = "init_open"
    /\ UNCHANGED <<idx, stats, data, file, clock, errors, notfound, handled,
                   retval, killed>>
    /\ UNCHANGED <<clientVars, deriveVars>>

\* get_pull_requests raises (a 4xx or 5xx): the run ends with the exception.
GetPullRequestsRaises ==
    /\ Alive /\ rpc = "start"
    /\ rpc' = "aborted"
    /\ UNCHANGED <<prs, idx, stats, data, file, clock, errors, notfound,
                   pr_stats, handled, retval, killed>>
    /\ UNCHANGED <<clientVars, deriveVars>>

\* _init_json_output: open(output_file, 'w') truncates the file.
InitOpen ==
    /\ Alive /\ rpc = "init_open"
    /\ file' = NoJson("empty")
    /\ rpc' = "init_dump"
    /\ UNCHANGED <<prs, idx, stats, data, clock, errors, notfound, pr_stats,
                   handled, retval, killed>>
    /\ UNCHANGED <<clientVars, deriveVars>>

\* json.dump under way: the buffer is flushed before the document is whole.
DumpPart ==
    /\ Alive /\ rpc \in {"init_dump", "append_dump"}
    /\ file.kind = "empty"
    /\ file' = NoJson("partial")
    /\ UNCHANGED <<rpc, prs, idx, stats, data, clock, errors, notfound,
                   pr_stats, handled, retval, killed>>
    /\ UNCHANGED <<clientVars, deriveVars>>

\* _init_json_output: json.dump(initial_data, f) done and the file closed;
\* the loop starts.
InitDump ==
    /\ Alive /\ rpc = "init_dump"
    /\ file' = JsonFile(InitialData(RepoInfoPassed, clock))
    /\ idx' = 1
    /\ rpc' = "loop"
    /\ UNCHANGED <<prs, stats, data, clock, errors, notfound, pr_stats,
                   handled, retval, killed>>
    /\ UNCHANGED <<clientVars, deriveVars>>

\* except Exception: logger.error(...); continue
Caught(where, tl) ==
    /\ errors' = Append(errors, prs[idx].number)
    /\ handled' = Append(handled, [number |-> prs[idx].number,
                                   outcome |-> "raised", where |-> where,
                                   timeline_status |-> tl])
    /\ idx' = idx + 1
    /\ rpc' = "loop"

\* stats = self.generate_pr_stats(pr, owner, repo): the reviews request
\* (through _paginate and _make_request), the timeline request, the stats.
GeneratePrStats ==
    /\ Alive /\ rpc = "loop" /\ idx <= Len(prs)
    /\ clock' = clock + 1
    /\ \E rs \in ReviewsStatuses, ts \in TimelineStatuses :
         LET step == MakeRequestStep(rs, <<>>, ListBody(RunReviews), clock)
             reviews_raw == IF step.do = "return" /\ ~Falsy(step.value)
                               /\ step.value.kind = "list"
                            THEN step.value.items ELSE <<>>
             timeline_raw == GetPrTimeline(ts, RunTimeline)
         IN  IF step.do = "raise"
             THEN /\ Caught("generate", 0)
                  /\ UNCHANGED <<stats, notfound>>
             ELSE /\ stats' = [st |-> PullRequestStats(prs[idx], reviews_raw,
                                                       timeline_raw),
                               timeline_status |-> ts]
                  /\ notfound' = IF rs = 404
                                 THEN Append(notfound, prs[idx].number)
                                 ELSE notfound
                  /\ rpc' = "append_read"
                  /\ UNCHANGED <<idx, errors, handled>>
    /\ UNCHANGED <<prs, data, file, pr_stats, retval, killed>>
    /\ UNCHANGED <<clientVars, deriveVars>>

\* _append_pr_to_json: open(output_file, 'r'); data = json.load(f);
\* data['pull_requests'].append(...). json.load raises on a file that holds
\* no JSON document.
AppendRead ==
    /\ Alive /\ rpc = "append_read"
    /\ IF file.kind = "json"
       THEN /\ data' = AppendPr(file.doc, stats.st)
            /\ rpc' = "append_open"
            /\ UNCHANGED <<idx, errors, handled>>
       ELSE /\ Caught("append_read", stats.timeline_status)
            /\ UNCHANGED data
    /\ UNCHANGED <<prs, stats, file, clock, notfound, pr_stats, retval,
                   killed>>
    /\ UNCHANGED <<clientVars, deriveVars>>

\* _append_pr_to_json: open(output_file, 'w') truncates the file, or raises
\* an OSError and leaves it.
AppendOpen ==
    /\ Alive /\ rpc = "append_open"
    /\ \/ /\ file' = NoJson("empty")
          /\ rpc' = "append_dump"
          /\ UNCHANGED <<idx, errors, handled>>
       \/ /\ Caught("append_open", stats.timeline_status)
          /\ UNCHANGED file
    /\ UNCHANGED <<prs, stats, data, clock, notfound, pr_stats, retval,
                   killed>>
    /\ UNCHANGED <<clientVars, deriveVars>>

\* _append_pr_to_json: json.dump(data, f) done and the file closed;
\* pr_stats.append(stats)
AppendDump ==
    /\ Alive /\ rpc = "append_dump"
    /\ file' = JsonFile(data)
    /\ pr_stats' = Append(pr_stats, stats.st)
    /\ handled' = Append(handled, [number |-> prs[idx].number,
                                   outcome |-> "ok", where |-> "",
                                   timeline_status |-> stats.timeline_status])
    /\ idx' = idx + 1
    /\ rpc' = "loop"
    /\ UNCHANGED <<prs, stats, data, clock, errors, notfound, retval, killed>>
    /\ UNCHANGED <<clientVars, deriveVars>>

\* _append_pr_to_json: the write raises an OSError (the disk is full): the
\* file stays as the truncation and the writes so far left it.
AppendDumpRaises ==
    /\ Alive /\ rpc = "append_dump"
    /\ Caught("append_dump", stats.timeline_status)
    /\ UNCHANGED <<prs, stats, data, file, clock, notfound, pr_stats, retval,
                   killed>>
    /\ UNCHANGED <<clientVars, deriveVars>>

\* return RepositoryStats(...)
Return ==
    /\ Alive /\ rpc = "loop" /\ idx > Len(prs)
    /\ retval' = [repository |-> RepositoryOf(Owner, Repo),
                  generated_at |-> clock,
                  pull_requests |-> pr_stats]
    /\ rpc' = "done"
    /\ UNCHANGED <<prs, idx, stats, data, file, clock, errors, notfound,
                   pr_stats, handled, killed>>
    /\ UNCHANGED <<clientVars, deriveVars>>

\* The process is terminated from outside, wherever it is.
Kill ==
    /\ Alive /\ rpc \notin {"done", "aborted"}
    /\ killed' = TRUE
    /\ UNCHANGED <<rpc, prs, idx, stats, data, file, clock, errors, notfound,
                   pr_stats, handled, retval>>
    /\ UNCHANGED <<clientVars, deriveVars>>

InitRun ==
    /\ rpc = "start"
    /\ prs = <<>>
    /\ idx = 0
    /\ stats = None
    /\ data = None
    /\ file = NoJson("absent")
    /\ clock = RunStart
    /\ errors = <<>>
    /\ notfound = <<>>
    /\ pr_stats = <<>>
    /\ handled = <<>>
    /\ retval = None
    /\ killed = FALSE

(***************************************************************************)
(* The specifications                                                      *)
(***************************************************************************)
NextClient ==
    \/ StartPaginate
    \/ Answer200
    \/ Answer403
    \/ Answer404
    \/ AnswerOther

InitOfClient == InitClient /\ IdleDerive /\ InitRun

SpecClient == InitOfClient /\ [][NextClient]_vars

NextDerive ==
    \/ Derive
    \/ Reorder

InitOfDerive == InitClient /\ InitDerive /\ InitRun

SpecDerive == InitOfDerive /\ [][NextDerive]_vars

NextRun ==
    \/ GetPullRequests
    \/ GetPullRequestsRaises
    \/ InitOpen
    \/ DumpPart
    \/ InitDump
    \/ GeneratePrStats
    \/ AppendRead
    \/ AppendOpen
    \/ AppendDump
    \/ AppendDumpRaises
    \/ Return
    \/ Kill

InitOfRun == InitClient /\ IdleDerive /\ InitRun

SpecRun == InitOfRun /\ [][NextRun]_vars

(***************************************************************************)
(* The claims about the API client (under SpecClient)                      *)
(***************************************************************************)
IsCall(e) == e.ev = "call"
IsReturn(e) == e.ev = "return"
CallEvs == SelectSeq(log, IsCall)
ReturnEvs == SelectSeq(log, IsReturn)

Is403(i) == log[i].ev = "resp" /\ log[i].status = 403

\* C3: every 403 response carrying reset header T (0 when the header is
\* missing), received at time t, is followed by a sleep of exactly
\* max(T - t + 60, 60) seconds, never less than 60, and then by a get with
\* the url and params of the get it answered; _make_request neither returns
\* nor raises on it; and a 200 is followed at once by the return of its body.
C3_RateLimitSleepAndRetry ==
    \A i \in 1..Len(log) :
        /\ Is403(i) =>
             LET T == IF log[i].header = <<>> THEN 0 ELSE log[i].header[1]
                 d == T - log[i].at + 60
             IN  /\ i + 1 <= Len(log)
                 /\ log[i + 1].ev = "sleep"
                 /\ log[i + 1].secs = (IF d > 60 THEN d ELSE 60)
                 /\ log[i + 1].secs >= 60
                 /\ log[i - 1].ev = "get"
                 /\ IF i + 2 <= Len(log)
                    THEN /\ log[i + 2].ev = "get"
                         /\ log[i + 2].url = log[i - 1].url
                         /\ log[i + 2].params = log[i - 1].params
                    ELSE cpc = "request"
        /\ (log[i].ev = "resp" /\ log[i].status = 200) =>
             /\ i + 1 <= Len(log)
             /\ log[i + 1].ev = "return"
             /\ log[i + 1].value = log[i].body

\* C3's case: a 403 with a reset header in the future, then a 403 with no
\* header, then a 200 whose body is returned.
C3_Witness ==
    /\ Len(log) >= 10
    /\ Is403(3) /\ log[3].header = <<1200>> /\ log[4].secs = 260
    /\ Is403(6) /\ log[6].header = <<>> /\ log[7].secs = 60
    /\ log[9].ev = "resp" /\ log[9].status = 200
    /\ log[10].ev = "return"

\* A page that ends the pagination: not a list, empty, or short.
Stops(v) == v.kind # "list" \/ Len(v.items) < 100

RECURSIVE ConcatPages(_)
ConcatPages(rets) ==
    IF rets = <<>> THEN <<>>
    ELSE (IF Head(rets).value.kind = "list" THEN Head(rets).value.items
          ELSE <<>>) \o ConcatPages(Tail(rets))

\* C8: _paginate calls _make_request for the pages 1, 2, 3, ... in turn,
\* each once, with per_page = 100 and the url and state it was given; its
\* results are the pages received, concatenated in page order; a page that
\* is short, empty or not a list (the {} of a 404 among them) is the last
\* one asked for, and _paginate returns on it; a full page is followed by
\* exactly one more call.
C8_Pagination ==
    /\ \A k \in 1..Len(CallEvs) :
          /\ CallEvs[k].params.page = k
          /\ CallEvs[k].params.per_page = 100
          /\ CallEvs[k].url = url
          /\ CallEvs[k].params.state = CallEvs[1].params.state
    /\ Len(ReturnEvs) <= Len(CallEvs)
    /\ Len(CallEvs) <= Len(ReturnEvs) + 1
    /\ results = ConcatPages(ReturnEvs)
    /\ \A k \in 1..Len(ReturnEvs) :
          IF Stops(ReturnEvs[k].value)
          THEN k = Len(ReturnEvs) /\ Len(CallEvs) = k /\ cpc = "returned"
          ELSE Len(CallEvs) > k
    /\ cpc = "returned" =>
          /\ ReturnEvs # <<>>
          /\ Stops(ReturnEvs[Len(ReturnEvs)].value)

\* C8's case: pages of 100, 100 and 37 items give 237 items after 3 page
\* requests.
C8_Witness ==
    /\ cpc = "returned"
    /\ Len(CallEvs) = 3
    /\ NumGets = 3
    /\ Len(ReturnEvs) = 3
    /\ Len(ReturnEvs[1].value.items) = 100
    /\ Len(ReturnEvs[2].value.items) = 100
    /\ Len(ReturnEvs[3].value.items) = 37
    /\ Len(results) = 237

\* C9: every response whose status is neither 200, 403 nor 404 and is not
\* 2xx makes _make_request raise: the raise follows the response, and
\* nothing (no further get, no return) follows the raise.
C9_OtherStatusRaises ==
    \A i \in 1..Len(log) :
        (/\ log[i].ev = "resp"
         /\ log[i].status \notin {200, 403, 404}
         /\ ~(200 <= log[i].status /\ log[i].status < 300))
        => /\ i + 1 = Len(log)
           /\ log[i + 1].ev = "raise"
           /\ cpc = "raised"

(***************************************************************************)
(* The claims about the derivations (under SpecDerive)                     *)
(***************************************************************************)
\* The time a timestamp 2024-01-DDTHH:00:00Z names, in hours.
TimeOf(ts) == (ts[1] * 10 + ts[2]) * 24 + ts[3] * 10 + ts[4]

\* The earliest of a non-empty set of timestamps.
Earliest(S) == CHOOSE t \in S : \A u \in S : TimeOf(t) <= TimeOf(u)

EarliestOrNone(S) == IF S = {} THEN None ELSE Earliest(S)

TimesOf(I) == {raw_reviews[i].submitted_at : i \in I}

\* The reviews the claim counts as substantive: changes requested or
\* commented (as the API or as the code spells the state), or approved with
\* a non-empty body.
ClaimedSubstantive ==
    {i \in DOMAIN raw_reviews :
        \/ raw_reviews[i].state \in {"CHANGES_REQUESTED", "COMMENTED",
                                     "REQUEST_CHANGES", "COMMENT"}
        \/ /\ raw_reviews[i].state = "APPROVED"
           /\ ~raw_reviews[i].body.null
           /\ raw_reviews[i].body.text # ""}

\* C4: review_given_timestamp is the earliest submitted_at among the reviews
\* that are changes-requested, commented, or approved with a non-empty body,
\* and None when there is none.
C4_FirstSubstantiveReview ==
    dpc = "done" =>
        review_given_timestamp = EarliestOrNone(TimesOf(ClaimedSubstantive))

ReadyEvents ==
    {i \in DOMAIN raw_timeline :
        raw_timeline[i].event = "ready_for_review"
            \/ raw_timeline[i].event = "review_requested"}

\* C5: request_to_review_timestamp is the PR's created_at when the PR is not
\* a draft; for a draft, the created_at of the first ready_for_review or
\* review_requested event in timeline order; the PR's created_at when a
\* draft has no such event; and it is never None.
C5_ReadyForReview ==
    dpc = "done" =>
        /\ request_to_review # None
        /\ request_to_review =
              IF pr.draft = "true" /\ ReadyEvents # {}
              THEN raw_timeline[CHOOSE i \in ReadyEvents :
                                   \A j \in ReadyEvents : i <= j].created_at
              ELSE pr.created_at

\* C5's case: a draft whose timeline holds an event of another kind and two
\* ready events, the first of them the later in time.
C5_Witness ==
    /\ dpc = "done"
    /\ pr.draft = "true"
    /\ pr.created_at = TsJan01T00
    /\ Len(raw_timeline) = 2
    /\ raw_timeline[1] = [event |-> "review_requested",
                          created_at |-> TsJan02T00]
    /\ raw_timeline[2] = [event |-> "ready_for_review",
                          created_at |-> TsJan01T12]
    /\ request_to_review = TsJan02T00

Approved == {i \in DOMAIN raw_reviews : raw_reviews[i].state = "APPROVED"}

\* C6: pr_approved_timestamp is the earliest submitted_at among exactly the
\* approved reviews, None when no review is approved, and the same for the
\* same reviews in another order.
C6_FirstApproval ==
    /\ [](dpc = "done" =>
            approval_timestamp = EarliestOrNone(TimesOf(Approved)))
    /\ [][(dpc = "done" /\ dpc' = "done") =>
            approval_timestamp' = approval_timestamp]_vars

\* C6's case: the derivation run on two approved reviews, the later one
\* first in the list.
C6_Witness ==
    /\ dpc = "done"
    /\ Len(raw_reviews) = 2
    /\ raw_reviews[1].state = "APPROVED"
    /\ raw_reviews[1].submitted_at = TsJan02T00
    /\ raw_reviews[2].state = "APPROVED"
    /\ raw_reviews[2].submitted_at = TsJan01T12
    /\ approval_timestamp = TsJan01T12

(***************************************************************************)
(* The claims about the run and its output file (under SpecRun)            *)
(***************************************************************************)
NumbersOf(sts) == [k \in 1..Len(sts) |-> sts[k].pr_meta.number]

IsOk(h) == h.outcome = "ok"
IsRaised(h) == h.outcome = "raised"
HandledNumbers(hs) == [k \in 1..Len(hs) |-> hs[k].number]

\* C1: wherever the process may be terminated once _init_json_output has
\* started, the output file holds a JSON document whose pull_requests are
\* the stats appended so far (a prefix of the run's final sequence).
C1_FileAlwaysValidPrefix ==
    file.kind # "absent" =>
        /\ file.kind = "json"
        /\ file.doc.pull_requests = pr_stats

\* C2: once the loop is through with the first i PRs, whichever of them
\* raised in generate_pr_stats or _append_pr_to_json, every one of them was
\* processed, the file's pull_requests holds exactly those that raised
\* nothing, in the API's order, and one error is logged per PR that raised.
C2_PartialFailure ==
    rpc \in {"loop", "done"} =>
        /\ Len(handled) = idx - 1
        /\ \A k \in 1..Len(handled) : handled[k].number = prs[k].number
        /\ errors = HandledNumbers(SelectSeq(handled, IsRaised))
        /\ file.kind = "json"
        /\ NumbersOf(file.doc.pull_requests) =
              HandledNumbers(SelectSeq(handled, IsOk))

\* C7: from the end of _init_json_output on, the file's repository object
\* holds the name, owner and url of the repository, and generated_at is the
\* time written at initialization, whatever was appended.
C7_FileMetadata ==
    file.kind = "json" =>
        /\ file.doc.repository = RepositoryOf(Owner, Repo)
        /\ file.doc.generated_at = RunStart

\* C10: a PullRequestStats is appended for a PR only if its timeline request
\* was answered with 200 or 404.
C10_TimelineErrorTaxonomy ==
    \A k \in 1..Len(handled) :
        handled[k].outcome = "ok" => handled[k].timeline_status \in {200, 404}

====
